---- MODULE Spec2Model ----
(***************************************************************************)
(* State-machine model of chatgpt.py: the global message list, the token   *)
(* counters, the startup code of main, the turn performed by start_prompt  *)
(* (prompt, request, classification of the response) and the atexit        *)
(* summary.                                                                *)
(***************************************************************************)
EXTENDS Integers, Sequences, FiniteSets, TLC

\* ------------------------------------------------------------------ bounds
\* Number of turns (calls of start_prompt) explored.
MaxTurns == 3

\* ------------------------------------------------------------ input values
\* Lines the user can enter at the prompt.
Texts == {"", "/q", "/Q", "hello", "more"}

\* The value of start_prompt's message while session.prompt has returned no line.
Unbound == "<unbound>"

\* Mutant of Lower: the comparison is case-sensitive.
LowerAsIs(s) == s

\* str.lower() on the lines above.
Lower(s) == CASE s = "/Q" -> "/q" [] OTHER -> s

\* Line 163: message.lower() == "/q"
IsQuit(text) == Lower(text) = "/q"

\* Mutant of IsEmpty: the empty line is not recognised.
IsEmptyNever(text) == FALSE

\* Line 165: message.lower() == ""
IsEmpty(text) == Lower(text) = ""

\* str.strip() on the texts used below.
Strip(s) ==
    CASE s = " ctx1\n" -> "ctx1" [] s = "ctx2 " -> "ctx2" [] s = " k_cli " -> "k_cli"
      [] s = " hi " -> "hi" [] OTHER -> s

\* Values of --context: the contents of the files given, in order.
Contexts == {<<>>, <<"ctx2 ", " ctx1\n">>}

\* Model identifiers: the first has an entry in PRICING_RATE, the second none.
KnownModel == "gpt-3.5-turbo"
UnknownModel == "my-model"

\* Pricing table, in millionths of a dollar per 1000 tokens.
PRICING_RATE ==
    [m \in {"gpt-3.5-turbo", "gpt-3.5-turbo-0613", "gpt-3.5-turbo-16k", "gpt-4",
            "gpt-4-0613", "gpt-4-32k", "gpt-4-32k-0613", "gpt-3.5-turbo-16k-0613"} |->
        CASE m \in {"gpt-3.5-turbo", "gpt-3.5-turbo-0613"} ->
                 [prompt |-> 1500, completion |-> 2000]
          [] m \in {"gpt-3.5-turbo-16k", "gpt-3.5-turbo-16k-0613"} ->
                 [prompt |-> 3000, completion |-> 4000]
          [] m \in {"gpt-4", "gpt-4-0613"} ->
                 [prompt |-> 30000, completion |-> 60000]
          [] OTHER -> [prompt |-> 60000, completion |-> 120000]]

\* ---------------------------------------------------------------- messages
Msg(role, content) == [role |-> role, content |-> content]

\* The instruction of add_markdown_system_message, line 110.
instruction ==
    "Always use code blocks with the appropriate language tags. If asked for a table always format it using Markdown syntax."

\* ------------------------------------------------------- response bodies
\* A response body as the code reads it.  kind says which JSON shape it has:
\*   completion           {choices:[{message}], usage:{prompt_tokens, completion_tokens}}
\*   no_usage             {choices:[{message}]}
\*   usage_no_completion  {choices:[{message}], usage:{prompt_tokens}}
\*   error                {error:{code, message}}
\*   error_no_code        {error:{message}}
\*   error_string         {error:"text"}
\*   empty_object         {}
\*   not_json             a body that is not JSON
NoMsg == Msg("none", "")

Body(kind, message, pt, ct, code, text) ==
    [kind |-> kind, message |-> message, prompt_tokens |-> pt,
     completion_tokens |-> ct, code |-> code, err_message |-> text]

\* Replies and usage counts the service reports on success.
Replies == {Msg("assistant", " hi ")}
Usages == {<<0, 0>>, <<2, 1>>}

\* Error messages, as sequences of tokens: a phrase, or a run of digits with its value.
W(s) == [w |-> s, n |-> 0]
D(n) == [w |-> "\\d+", n |-> n]
Prefix == W("This model's maximum context length is")
Resulted == W("your messages resulted in")
Tokens == W("tokens")
Newline == W("\n")

CtxMatch == <<Prefix, D(4096), Tokens, W(". However,"), Resulted, D(4500), Tokens, W(".")>>
CtxNoMatch == <<W("Context window of"), D(4096), Tokens, W("exceeded")>>
OtherText == <<W("Unsupported parameter")>>

CompletionBodies ==
    {Body("completion", m, u[1], u[2], "", <<>>) : m \in Replies, u \in Usages}

MalformedCompletionBodies ==
    {Body("no_usage", Msg("assistant", " hi "), 0, 0, "", <<>>),
     Body("usage_no_completion", Msg("assistant", " hi "), 2, 0, "", <<>>)}

ErrorBodies ==
    {Body("error", NoMsg, 0, 0, "context_length_exceeded", CtxMatch),
     Body("error", NoMsg, 0, 0, "context_length_exceeded", CtxNoMatch),
     Body("error", NoMsg, 0, 0, "invalid_request_error", OtherText),
     Body("error_no_code", NoMsg, 0, 0, "", OtherText),
     Body("error_string", NoMsg, 0, 0, "", <<>>)}

EmptyObject == Body("empty_object", NoMsg, 0, 0, "", <<>>)
NotJson == Body("not_json", NoMsg, 0, 0, "", <<>>)

Bodies ==
    CompletionBodies \cup MalformedCompletionBodies \cup ErrorBodies
        \cup {EmptyObject, NotJson}

\* Status codes: those the code names, and one it does not.
Statuses == {200, 400, 401, 429, 502, 503, 418}

\* The bodies explored with each status.  The branches for 401, 429, 502 and
\* 503 never read the body, and the last branch only parses it.
BodiesFor(status) ==
    IF status \in {200, 400} THEN Bodies
    ELSE {EmptyObject, NotJson, Body("error", NoMsg, 0, 0, "invalid_request_error", OtherText)}

\* r before requests.post has returned.
NoResponse == [kind |-> "none", status_code |-> 0, body |-> EmptyObject]
Response(status, body) == [kind |-> "response", status_code |-> status, body |-> body]

\* ------------------------------------------------------------------- state
VARIABLES
    config_file,        \* the configuration file: "present", "absent", "uncreatable"
    file_markdown,      \* the markdown entry of a present configuration file
    context,            \* --context: contents of the context files
    api_key,            \* --key ("" when not given)
    model,              \* --model ("" when not given)
    environ,            \* OPENAI_API_KEY ("" when unset or empty)
    config,             \* the dictionary load_config returned, after the overrides
    atexit,             \* the models display_expense is registered with
    messages,           \* global messages
    prompt_tokens,      \* global prompt_tokens
    completion_tokens,  \* global completion_tokens
    pc,                 \* where the process is
    exc,                \* what the last call of start_prompt raised
    message,            \* start_prompt: the line entered
    sent,               \* start_prompt: body["messages"] as posted
    r,                  \* start_prompt: the response
    report,             \* the diagnostic the turn printed
    before,             \* messages when the turn started
    accepted,           \* the user and assistant messages of the successful turns
    requests,           \* number of calls of requests.post
    turns,              \* number of calls of start_prompt
    summaries,          \* number of summary lines display_expense printed
    pricing_errors,     \* number of KeyErrors display_expense raised
    summary,            \* the token total and the expense display_expense printed
    headers,            \* start_prompt: the credential of the Authorization header
    exit_code           \* the exit status of the process

vars == <<config_file, file_markdown, context, api_key, model, environ, config, atexit,
          messages, prompt_tokens, completion_tokens, pc, exc, message, sent, r, report,
          before, accepted, requests, turns, summaries, pricing_errors, summary, headers,
          exit_code>>

inputs == <<config_file, file_markdown, context, api_key, model, environ>>
counters == <<prompt_tokens, completion_tokens>>

\* --------------------------------------------------------------- operations
\* messages.append({"role": "user", "content": message})
AppendUser(msgs, text) == Append(msgs, Msg("user", text))

\* Mutant of post: a request that is sent a second time.
post_again(n) == n + 2

\* Lines 181 to 183: the number of calls of requests.post after one more.
post(n) == n + 1

\* Mutant of Pop: the rollback is forgotten.
PopNothing(msgs) == msgs

\* Mutant of Pop: the last two messages are removed.
PopTwice(msgs) == SubSeq(msgs, 1, Len(msgs) - 2)

\* messages.pop()
Pop(msgs) == SubSeq(msgs, 1, Len(msgs) - 1)

\* Mutant of AppendResponse: the text appended is the stripped text displayed.
AppendStripped(msgs, message_response) ==
    Append(msgs, Msg(message_response.role, Strip(message_response.content)))

\* messages.append(message_response)
AppendResponse(msgs, message_response) == Append(msgs, message_response)

\* round(expense, 6) when the sum lies exactly between two millionths, which
\* happens for an odd prompt_tokens at the rates 0.0015 and 0.002: the binary
\* floating-point sum of line 123 is then above or below the middle, and the
\* rounded value goes up or down with it. The table lists the counts with which
\* it goes up, for the token counts up to 12 and the completion count 500, as
\* lines 123 to 128 give them.
RoundsUp(pt, ct) ==
    CASE pt = 1 -> ct \in {0, 3, 4, 5, 7, 10, 500}
      [] pt = 3 -> ct \in {0, 1, 3, 5, 6, 8, 9, 10, 11, 12}
      [] pt = 5 -> ct \in {0, 1, 2, 4, 5, 7, 10}
      [] pt = 7 -> ct \in {0, 1, 2, 3, 4, 5, 6, 8, 9, 10, 11, 500}
      [] pt = 9 -> ct \in {1, 4, 5, 10, 12, 500}
      [] pt = 11 -> ct \in {5, 11, 500}
      [] OTHER -> FALSE

\* Mutant of calculate_expense: the token counts are divided by 1000 with
\* integer division.
calculate_expense_floordiv(pt, ct, prompt_pricing, completion_pricing) ==
    (pt \div 1000) * prompt_pricing + (ct \div 1000) * completion_pricing

\* calculate_expense, lines 114 to 130, in millionths of a dollar (the rates are
\* millionths of a dollar for 1000 tokens): the sum rounded to six decimals.
calculate_expense(pt, ct, prompt_pricing, completion_pricing) ==
    LET total == pt * prompt_pricing + ct * completion_pricing
        q == total \div 1000
        rem == total % 1000
    IN  IF rem > 500 \/ (rem = 500 /\ RoundsUp(pt, ct)) THEN q + 1 ELSE q

\* Mutant of register: display_expense is registered twice.
register_twice(handlers, mdl) == Append(Append(handlers, mdl), mdl)

\* Line 309: atexit.register(display_expense, model=config["model"])
register(handlers, mdl) == Append(handlers, mdl)

\* The messages main appends before the loop.
MarkdownMessages(cfg) ==
    IF cfg.markdown THEN <<Msg("system", instruction)>> ELSE <<>>

\* Mutant of ContextMessages: the context blocks are appended last to first.
ContextReversed(ctx) ==
    [i \in 1..Len(ctx) |-> Msg("system", Strip(ctx[Len(ctx) + 1 - i]))]

\* Lines 318 to 321: one system message for each context file, in order.
ContextMessages(ctx) == [i \in 1..Len(ctx) |-> Msg("system", Strip(ctx[i]))]

\* load_config: the dictionary read from the file; a file that does not exist is
\* written with the default content first.
DefaultConfig == [api_key |-> "INSERT API KEY HERE", model |-> KnownModel, markdown |-> TRUE]
NoConfig == [api_key |-> "", model |-> "", markdown |-> FALSE]

load_config(file, markdown) ==
    IF file = "present"
    THEN [api_key |-> "k_file", model |-> KnownModel, markdown |-> markdown]
    ELSE DefaultConfig

\* Mutant of Overrides: the environment variable is applied after --key.
OverridesEnvLast(cfg, env, key, mdl) ==
    [cfg EXCEPT !.api_key = IF env # "" THEN Strip(env)
                            ELSE IF key # "" THEN Strip(key) ELSE @,
                !.model = IF mdl # "" THEN Strip(mdl) ELSE @]

\* main: the overrides of the API key and of the model.
Overrides(cfg, env, key, mdl) ==
    [cfg EXCEPT !.api_key = IF key # "" THEN Strip(key)
                            ELSE IF env # "" THEN Strip(env) ELSE @,
                !.model = IF mdl # "" THEN Strip(mdl) ELSE @]

\* ------------------------------------------------------------- diagnostics
Report(kind, max, put, exceed) ==
    [kind |-> kind, max |-> max, sent |-> put, overage |-> exceed]
NoReport == Report("none", 0, 0, 0)

\* The regular expression of the context-length message, searched in the tokens
\* of err_message: the prefix, digits, "tokens", then as few tokens as possible
\* other than a newline, then the second phrase, digits, "tokens".
IsDigits(t) == t.w = "\\d+"

HeadAt(toks, i) ==
    /\ i + 2 <= Len(toks)
    /\ toks[i] = Prefix /\ IsDigits(toks[i + 1]) /\ toks[i + 2] = Tokens

TailAt(toks, i, j) ==
    /\ j >= i + 3 /\ j + 2 <= Len(toks)
    /\ toks[j] = Resulted /\ IsDigits(toks[j + 1]) /\ toks[j + 2] = Tokens
    /\ \A k \in (i + 3)..(j - 1) : toks[k] # Newline

Matches(toks) ==
    {p \in (1..Len(toks)) \X (1..Len(toks)) : HeadAt(toks, p[1]) /\ TailAt(toks, p[1], p[2])}

\* Lines 231 to 242: the reports printed for a context_length_exceeded error,
\* in order. When the pattern matches, line 237 prints the lengths and the
\* EOFError of line 238, raised inside the try, is caught by the except
\* Exception of line 240, so line 241 prints the generic report after it.
ContextLengthReport(err_message) ==
    LET ms == Matches(err_message)
    IN  IF ms = {} THEN <<Report("context_length_generic", 0, 0, 0)>>
        ELSE LET i == CHOOSE x \in {p[1] : p \in ms} : \A y \in {p[1] : p \in ms} : x <= y
                 js == {p[2] : p \in {q \in ms : q[1] = i}}
                 j == CHOOSE x \in js : \A y \in js : x <= y
                 a == err_message[i + 1].n
                 b == err_message[j + 1].n
             IN  <<Report("context_length", a, b, b - a),
                   Report("context_length_generic", 0, 0, 0)>>

\* ----------------------------------------------- start_prompt, after the post
\* What the rest of start_prompt does: the exception it raises ("None" when it
\* returns), the diagnostic it prints, the message list, and what it adds to
\* the token counters.
Outcome(e, rep, msgs, pt, ct) ==
    [exc |-> e, report |-> rep, messages |-> msgs, prompt_tokens |-> pt,
     completion_tokens |-> ct]

HasChoices(body) == body.kind \in {"completion", "no_usage", "usage_no_completion"}
HasErrorKey(body) == body.kind \in {"error", "error_no_code", "error_string"}

\* Mutant of usage_response: the counts are subtracted.
usage_negated(body) ==
    [prompt_tokens |-> 0 - body.prompt_tokens,
     completion_tokens |-> 0 - body.completion_tokens]

\* Lines 197, 208 and 209: the counts added to the totals.
usage_response(body) ==
    [prompt_tokens |-> body.prompt_tokens, completion_tokens |-> body.completion_tokens]

\* Lines 193 to 209.
On200(body, msgs) ==
    CASE body.kind = "not_json" -> Outcome("JSONDecodeError", NoReport, msgs, 0, 0)
      [] ~HasChoices(body) -> Outcome("KeyError", NoReport, msgs, 0, 0)
      [] body.kind = "no_usage" -> Outcome("KeyError", NoReport, msgs, 0, 0)
      [] body.kind = "usage_no_completion" ->
             Outcome("KeyError", Report("reply", 0, 0, 0),
                     AppendResponse(msgs, body.message),
                     usage_response(body).prompt_tokens, 0)
      [] OTHER ->
             Outcome("None", Report("reply", 0, 0, 0),
                     AppendResponse(msgs, body.message),
                     usage_response(body).prompt_tokens,
                     usage_response(body).completion_tokens)

\* Lines 211 to 242.  Line 218 raises KeyError whenever line 217 has found the
\* code and the message, so the lines after 229 are never reached.
On400(body, msgs) ==
    CASE body.kind = "not_json" -> Outcome("JSONDecodeError", NoReport, msgs, 0, 0)
      [] body.kind = "error_string" -> Outcome("TypeError", NoReport, msgs, 0, 0)
      [] HasErrorKey(body) ->
             Outcome("EOFError", Report("invalid_request", 0, 0, 0), msgs, 0, 0)
      [] OTHER ->
             Outcome("EOFError", Report("no_error_details", 0, 0, 0), msgs, 0, 0)

\* Mutant of On401: the user message is rolled back before the loop ends.
On401Rollback(msgs) ==
    Outcome("EOFError", Report("invalid_api_key", 0, 0, 0), Pop(msgs), 0, 0)

\* Lines 244 to 246.
On401(msgs) == Outcome("EOFError", Report("invalid_api_key", 0, 0, 0), msgs, 0, 0)

\* Lines 248 to 251.
On429(msgs) ==
    Outcome("KeyboardInterrupt", Report("rate_limit", 0, 0, 0), Pop(msgs), 0, 0)

\* Lines 253 to 256.
On50x(msgs) ==
    Outcome("KeyboardInterrupt", Report("overloaded", 0, 0, 0), Pop(msgs), 0, 0)

\* Lines 258 to 261.
OnOther(body, msgs) ==
    IF body.kind = "not_json"
    THEN Outcome("JSONDecodeError", Report("unknown_status", 0, 0, 0), msgs, 0, 0)
    ELSE Outcome("EOFError", Report("unknown_status", 0, 0, 0), msgs, 0, 0)

\* Lines 193 to 261: the branch taken for r.status_code.
OnResponse(status, body, msgs) ==
    CASE status = 200 -> On200(body, msgs)
      [] status = 400 -> On400(body, msgs)
      [] status = 401 -> On401(msgs)
      [] status = 429 -> On429(msgs)
      [] status = 502 \/ status = 503 -> On50x(msgs)
      [] OTHER -> OnOther(body, msgs)

\* Lines 184 to 191.
OnConnectionError(msgs) ==
    Outcome("KeyboardInterrupt", Report("connection_error", 0, 0, 0), Pop(msgs), 0, 0)

OnTimeout(msgs) ==
    Outcome("KeyboardInterrupt", Report("timeout", 0, 0, 0), Pop(msgs), 0, 0)

\* A KeyboardInterrupt raised inside requests.post: no except clause of
\* start_prompt names it.
OnInterrupt(msgs) == Outcome("KeyboardInterrupt", NoReport, msgs, 0, 0)

\* main, lines 325 to 331: where the loop goes for what start_prompt raised.
LoopPc(e) ==
    CASE e = "None" -> "awaiting"
      [] e = "KeyboardInterrupt" -> "awaiting"
      [] OTHER -> "exiting"

\* Mutant of LoopExit: every way out of the loop is a failure.
LoopExitFailure(e, code) == 1

\* The exit status: 0 when the loop was left by break, 1 for an exception that
\* leaves main.
LoopExit(e, code) ==
    CASE e = "None" -> code
      [] e = "KeyboardInterrupt" -> code
      [] e = "EOFError" -> 0
      [] OTHER -> 1

\* Nothing printed by display_expense.
NoSummary == [total |-> 0, expense |-> -1]

\* ------------------------------------------------------------------- Init
\* The process before main runs: the globals of lines 47 to 50, and the
\* command line, the environment and the configuration file it is started with.
Init ==
    /\ config_file \in {"present", "absent", "uncreatable"}
    /\ file_markdown \in IF config_file = "present" THEN BOOLEAN ELSE {TRUE}
    /\ context \in Contexts
    /\ api_key \in {"", " k_cli "}
    /\ environ \in {"", "k_env"}
    /\ model \in {"", UnknownModel}
    /\ config = NoConfig
    /\ atexit = <<>>
    /\ messages = <<>>
    /\ prompt_tokens = 0
    /\ completion_tokens = 0
    /\ pc = "start"
    /\ exc = "None"
    /\ message = Unbound
    /\ sent = <<>>
    /\ r = NoResponse
    /\ report = NoReport
    /\ before = <<>>
    /\ accepted = <<>>
    /\ requests = 0
    /\ turns = 0
    /\ summaries = 0
    /\ pricing_errors = 0
    /\ summary = NoSummary
    /\ headers = ""
    /\ exit_code = -1

\* ---------------------------------------------------------------- actions
\* main, lines 282 to 286: load_config raises FileNotFoundError.
MainConfigNotFound ==
    /\ pc = "start"
    /\ config_file = "uncreatable"
    /\ pc' = "exiting"
    /\ exc' = "SystemExit"
    /\ exit_code' = 1
    /\ report' = Report("config_not_found", 0, 0, 0)
    /\ UNCHANGED <<inputs, config, atexit, messages, counters, message, sent, r, before,
                   accepted, requests, turns, summaries, pricing_errors, summary, headers>>

\* main, lines 282 to 323: the configuration is loaded, display_expense is
\* registered and the system messages are appended.
MainStart ==
    /\ pc = "start"
    /\ config_file # "uncreatable"
    /\ LET cfg == Overrides(load_config(config_file, file_markdown), environ, api_key, model)
       IN  /\ config' = cfg
           /\ atexit' = register(atexit, cfg.model)
           /\ messages' = messages \o MarkdownMessages(cfg) \o ContextMessages(context)
    /\ config_file' = "present"
    /\ pc' = "awaiting"
    /\ UNCHANGED <<file_markdown, context, api_key, model, environ, counters, exc, message,
                   sent, r, report, before, accepted, requests, turns, summaries,
                   pricing_errors, summary, headers, exit_code>>

\* What every call of start_prompt does first: a new turn.
NewTurn ==
    /\ pc = "awaiting"
    /\ turns < MaxTurns
    /\ turns' = turns + 1
    /\ before' = messages
    /\ r' = NoResponse
    /\ UNCHANGED inputs
    /\ UNCHANGED <<config, atexit, summaries, pricing_errors, summary>>

\* A turn that ends at the prompt with exception e and no request.
EndsAtPrompt(e) ==
    /\ NewTurn
    /\ exc' = e
    /\ pc' = LoopPc(e)
    /\ exit_code' = LoopExit(e, exit_code)
    /\ report' = NoReport
    /\ UNCHANGED <<messages, counters, sent, accepted, requests, headers>>

\* Lines 161 to 164: the quit token.
PromptQuit ==
    \E text \in Texts :
        /\ IsQuit(text)
        /\ message' = text
        /\ EndsAtPrompt("EOFError")

\* Lines 161 to 166: an empty line.
PromptEmpty ==
    \E text \in Texts :
        /\ ~IsQuit(text)
        /\ IsEmpty(text)
        /\ message' = text
        /\ EndsAtPrompt("KeyboardInterrupt")

\* Line 161: session.prompt raises KeyboardInterrupt (Ctrl-C).
PromptInterrupt ==
    /\ message' = Unbound
    /\ EndsAtPrompt("KeyboardInterrupt")

\* Line 161: session.prompt raises EOFError (end of input).
PromptEOF ==
    /\ message' = Unbound
    /\ EndsAtPrompt("EOFError")

\* Lines 156 to 183: the line becomes a user message and the request is posted.
PromptSend ==
    \E text \in Texts :
        /\ ~IsQuit(text)
        /\ ~IsEmpty(text)
        /\ NewTurn
        /\ message' = text
        /\ messages' = AppendUser(messages, text)
        /\ sent' = messages'
        /\ headers' = config.api_key
        /\ requests' = post(requests)
        /\ pc' = "dispatching"
        /\ exc' = "None"
        /\ report' = NoReport
        /\ UNCHANGED <<counters, accepted, exit_code>>

\* The rest of the turn, with outcome o, and the loop's handling of it.
Finish(o) ==
    /\ pc = "dispatching"
    /\ messages' = o.messages
    /\ prompt_tokens' = prompt_tokens + o.prompt_tokens
    /\ completion_tokens' = completion_tokens + o.completion_tokens
    /\ report' = o.report
    /\ exc' = o.exc
    /\ pc' = LoopPc(o.exc)
    /\ exit_code' = LoopExit(o.exc, exit_code)
    /\ accepted' = IF o.exc = "None"
                   THEN accepted \o SubSeq(o.messages, Len(before) + 1, Len(o.messages))
                   ELSE accepted
    /\ UNCHANGED inputs
    /\ UNCHANGED <<config, atexit, message, sent, before, requests, turns, summaries,
                   pricing_errors, summary, headers>>

\* Lines 184 to 187.
RequestConnectionError ==
    /\ r' = [NoResponse EXCEPT !.kind = "ConnectionError"]
    /\ Finish(OnConnectionError(messages))

\* Lines 188 to 191.
RequestTimeout ==
    /\ r' = [NoResponse EXCEPT !.kind = "Timeout"]
    /\ Finish(OnTimeout(messages))

\* Lines 181 to 183: Ctrl-C while requests.post is waiting.
RequestInterrupt ==
    /\ r' = [NoResponse EXCEPT !.kind = "KeyboardInterrupt"]
    /\ Finish(OnInterrupt(messages))

\* Lines 193 to 261: requests.post returned a response.
Respond ==
    \E status \in Statuses :
        \E body \in BodiesFor(status) :
            /\ r' = Response(status, body)
            /\ Finish(OnResponse(status, body, messages))

\* Mutant of display_expense: a model without an entry is priced at zero.
display_expense_default(mdl) ==
    [raised |-> "None", total |-> prompt_tokens + completion_tokens,
     expense |-> IF mdl \in DOMAIN PRICING_RATE
                 THEN calculate_expense(prompt_tokens, completion_tokens,
                                        PRICING_RATE[mdl].prompt,
                                        PRICING_RATE[mdl].completion)
                 ELSE 0]

\* display_expense, lines 133 to 145.
display_expense(mdl) ==
    IF mdl \in DOMAIN PRICING_RATE
    THEN [raised |-> "None",
          total |-> prompt_tokens + completion_tokens,
          expense |-> calculate_expense(prompt_tokens, completion_tokens,
                                        PRICING_RATE[mdl].prompt,
                                        PRICING_RATE[mdl].completion)]
    ELSE [raised |-> "KeyError", total |-> 0, expense |-> 0]

\* The interpreter exits and runs the functions registered with atexit.
ProcessExit ==
    /\ pc = "exiting"
    /\ pc' = "exited"
    /\ LET ran == {i \in 1..Len(atexit) : display_expense(atexit[i]).raised = "None"}
       IN  /\ summaries' = summaries + Cardinality(ran)
           /\ pricing_errors' = pricing_errors + (Len(atexit) - Cardinality(ran))
           /\ summary' = IF ran = {} THEN summary
                         ELSE LET printed == display_expense(atexit[CHOOSE i \in ran : TRUE])
                              IN  [total |-> printed.total, expense |-> printed.expense]
    /\ UNCHANGED inputs
    /\ UNCHANGED <<config, atexit, messages, counters, exc, message, sent, r, report,
                   before, accepted, requests, turns, headers, exit_code>>

Next ==
    \/ MainConfigNotFound
    \/ MainStart
    \/ PromptQuit
    \/ PromptEmpty
    \/ PromptInterrupt
    \/ PromptEOF
    \/ PromptSend
    \/ RequestConnectionError
    \/ RequestTimeout
    \/ RequestInterrupt
    \/ Respond
    \/ ProcessExit

Spec == Init /\ [][Next]_vars

\* ------------------------------------------------- calculate_expense alone
\* The process at its exit, with any token counts up to MaxTokens (and the
\* counts 1000 and 500) and any model of the pricing table given with --model:
\* display_expense applies calculate_expense to them.
MaxTokens == 8

InitExpense ==
    /\ config_file = "present"
    /\ file_markdown = FALSE
    /\ context = <<>>
    /\ api_key = ""
    /\ environ = ""
    /\ model \in DOMAIN PRICING_RATE
    /\ config = Overrides(load_config(config_file, file_markdown), environ, api_key, model)
    /\ atexit = register(<<>>, config.model)
    /\ messages = <<>>
    /\ prompt_tokens \in 0..MaxTokens \cup {1000}
    /\ completion_tokens \in 0..MaxTokens \cup {500}
    /\ pc = "exiting"
    /\ exc = "EOFError"
    /\ message = Unbound
    /\ sent = <<>>
    /\ r = NoResponse
    /\ report = NoReport
    /\ before = <<>>
    /\ accepted = <<>>
    /\ requests = 0
    /\ turns = 0
    /\ summaries = 0
    /\ pricing_errors = 0
    /\ summary = NoSummary
    /\ headers = ""
    /\ exit_code = 0

NextExpense == ProcessExit

SpecExpense == InitExpense /\ [][NextExpense]_vars

\* ------------------------------------------------------------------ claims
\* The turn that last called requests.post has ended.
TurnOver == pc # "dispatching" /\ r.kind # "none"

IsResponse(status) == r.kind = "response" /\ r.status_code = status

\* A turn ends in success when the response has status 200 and the reply and
\* the usage counts were taken from its body (the reply was displayed).
Success(resp, rep) ==
    resp.kind = "response" /\ resp.status_code = 200 /\ rep.kind = "reply"

\* The failures after which the user is prompted again.
RecoverableFailure ==
    \/ r.kind \in {"ConnectionError", "Timeout"}
    \/ r.kind = "response" /\ r.status_code \in {429, 502, 503}

\* The failures that end the session: 400, 401 and every unlisted status.
FatalFailure == r.kind = "response" /\ r.status_code \notin {200, 429, 502, 503}

SystemMessages == MarkdownMessages(config) \o ContextMessages(context)

QuitTokens == {"/q", "/Q"}

Terminated == pc \in {"exiting", "exited"}

\* C1: after a turn that ended in a recoverable failure (ConnectionError,
\* Timeout, 429, 502, 503) the message list equals the list before the
\* turn's user message was appended.
C1_RollbackInvariant == (TurnOver /\ RecoverableFailure) => messages = before

C1_Witness ==
    /\ pc = "awaiting" /\ RecoverableFailure
    /\ accepted # <<>> /\ Len(before) > Len(accepted) /\ messages = before

\* C2, as claimed: after a fatal failure the message list is exactly as it
\* was before the failed attempt.
C2_FatalLeavesListAsBefore == (TurnOver /\ FatalFailure) => messages = before

\* C2, amended: after a fatal failure the loop has ended and the message list
\* is the list before the attempt followed by the attempt's user message.
C2_FatalKeepsUserMessage ==
    (TurnOver /\ FatalFailure) =>
        /\ Terminated
        /\ messages = Append(before, Msg("user", message))

C2_Witness ==
    /\ pc = "exiting" /\ IsResponse(401) /\ accepted # <<>>
    /\ messages[Len(messages)].role = "user"

\* C3: after a turn that ended in success the message list is the list before
\* the turn, then the user message holding the line entered, then the message
\* of the response.
C3_AppendInvariant ==
    (TurnOver /\ Success(r, report)) =>
        messages = before \o <<Msg("user", message), r.body.message>>

C3_Witness ==
    /\ pc = "awaiting" /\ Success(r, report)
    /\ Len(accepted) = 2 /\ Len(before) = Len(SystemMessages) + 2
    /\ Len(SystemMessages) = 3 /\ Len(messages) = Len(before) + 2

\* C4: after a response, 200 returns the loop to the prompt, 429, 502 and 503
\* return it to the prompt, and every other status ends the loop.
C4_StatusClassification ==
    (TurnOver /\ r.kind = "response") =>
        CASE r.status_code = 200 -> pc = "awaiting"
          [] r.status_code \in {429, 502, 503} -> pc = "awaiting"
          [] OTHER -> Terminated

\* C5: a 400 response whose error code is context_length_exceeded ends the
\* session with the context-length report: max, sent and overage when the
\* message matches the pattern, the generic report when it does not.
C5_ContextLengthReport ==
    (TurnOver /\ IsResponse(400) /\ r.body.kind = "error"
        /\ r.body.code = "context_length_exceeded") =>
        /\ Terminated
        /\ report = Head(ContextLengthReport(r.body.err_message))

\* C6: in every step the two totals do not decrease, and they change only in
\* the step that ends a turn in success.
C6_UsageMonotonic ==
    [][/\ prompt_tokens' >= prompt_tokens
       /\ completion_tokens' >= completion_tokens
       /\ (counters' # counters) => (pc = "dispatching" /\ Success(r', report'))]_vars

C6_Witness ==
    /\ prompt_tokens = 2 /\ completion_tokens = 1
    /\ pc = "awaiting" /\ TurnOver /\ RecoverableFailure

\* C7: the sequence of every request is the startup system messages, then the
\* messages of the successful turns, then the user message of this turn.
C7_SentSequence ==
    pc = "dispatching" =>
        sent = SystemMessages \o accepted \o <<Msg("user", message)>>

\* C8: a turn whose line is empty posts no request, leaves the message list and
\* the totals as they were, and returns the loop to the prompt.
C8_EmptyInput ==
    [][(turns' = turns + 1 /\ message' = "") =>
           /\ requests' = requests
           /\ messages' = messages
           /\ counters' = counters
           /\ pc' = "awaiting"]_vars

C8_Witness ==
    /\ message = "" /\ pc = "awaiting" /\ exc = "KeyboardInterrupt"
    /\ accepted # <<>> /\ requests = 1 /\ turns = 2

\* C9: a turn whose line is the quit token, in either case, ends the loop,
\* posts no request and leaves the message list as it was.
C9_QuitToken ==
    [][(turns' = turns + 1 /\ message' \in QuitTokens) =>
           /\ requests' = requests
           /\ messages' = messages
           /\ pc' = "exiting" /\ exc' = "EOFError" /\ exit_code' = 0]_vars

C9_Witness ==
    /\ message = "/Q" /\ pc = "exiting" /\ exc = "EOFError"
    /\ accepted # <<>> /\ messages = before

\* C10, as claimed: when the process has exited the summary was printed
\* exactly once.
C10_SummaryExactlyOnce == pc = "exited" => summaries = 1

\* C10, amended: no summary is printed before the process exits; at exit it is
\* printed exactly once when display_expense was registered and the model has
\* a pricing entry; with a model that has none display_expense raises KeyError
\* once and prints nothing; an exit before the registration prints nothing.
C10_SummaryAtExit ==
    /\ pc # "exited" => (summaries = 0 /\ pricing_errors = 0)
    /\ pc = "exited" =>
           CASE atexit = <<>> -> summaries = 0 /\ pricing_errors = 0
             [] config.model \in DOMAIN PRICING_RATE ->
                    summaries = 1 /\ pricing_errors = 0
             [] OTHER -> summaries = 0 /\ pricing_errors = 1
    /\ (atexit = <<>>) <=> (pc = "start" \/ exc = "SystemExit")

C10_Witness ==
    /\ pc = "exited" /\ summaries = 1 /\ exc = "EOFError" /\ prompt_tokens > 0

\* C11: a request is posted only by a turn that has just read a line other
\* than the empty line and the quit token, from the prompt, with no request
\* outstanding; such a line posts exactly one request; and no step leaves one
\* request outstanding to start another.
C11_OneRequestPerInput ==
    [][/\ (requests' # requests) =>
              /\ requests' = requests + 1
              /\ pc = "awaiting" /\ pc' = "dispatching"
              /\ turns' = turns + 1
              /\ message' \in Texts \ ({""} \cup QuitTokens)
       /\ (turns' = turns + 1 /\ message' \in Texts \ ({""} \cup QuitTokens)) =>
              requests' = requests + 1
       /\ (pc' = "dispatching" /\ pc # "dispatching") => requests' = requests + 1
       /\ (pc = "dispatching" /\ r' # r) => pc' # "dispatching"]_vars

C11_Witness ==
    /\ pc = "dispatching" /\ requests = 2 /\ turns = 3
    /\ accepted = <<>> /\ messages = SystemMessages \o <<Msg("user", message)>>

\* C12: when the first turn is solicited the message list is the formatting
\* instruction, if and only if markdown is enabled, followed by one system
\* message for each context block in the order given; in every later state
\* these are the first messages of the list and its only system messages.
C12_Directive == IF config.markdown THEN 1 ELSE 0

C12_Seeded(msgs) ==
    /\ Len(msgs) >= C12_Directive + Len(context)
    /\ config.markdown => msgs[1] = [role |-> "system", content |-> instruction]
    /\ \A i \in 1..Len(context) :
           /\ msgs[C12_Directive + i].role = "system"
           /\ msgs[C12_Directive + i].content \in {"ctx1", "ctx2"}
           /\ (context[i] = " ctx1\n") <=> (msgs[C12_Directive + i].content = "ctx1")
    /\ \A i \in (C12_Directive + Len(context) + 1)..Len(msgs) :
           msgs[i].role \in {"user", "assistant"}

C12_StartupSeeding ==
    /\ (pc = "awaiting" /\ turns = 0) =>
           (C12_Seeded(messages) /\ Len(messages) = C12_Directive + Len(context))
    /\ (pc # "start" /\ atexit # <<>>) => C12_Seeded(messages)
    /\ pc = "start" => messages = <<>>

C12_Witness ==
    /\ pc = "awaiting" /\ turns = 3 /\ Len(accepted) = 4
    /\ config.markdown /\ Len(context) = 2 /\ Len(messages) = 7

\* C13: with a model that has no pricing entry the pricing table is not looked
\* up while the loop runs (no KeyError before the process exits, and turns end
\* in success, in recoverable failures and in fatal failures as the response
\* says), and the lookup fails exactly once, when the process exits.
C13_Unpriced == atexit # <<>> /\ config.model \notin DOMAIN PRICING_RATE

C13_PricingErrorAtExitOnly ==
    C13_Unpriced =>
        /\ pc # "exited" => pricing_errors = 0
        /\ pc = "exited" => (pricing_errors = 1 /\ summaries = 0)
        /\ (TurnOver /\ RecoverableFailure) => (pc = "awaiting" /\ messages = before)
        /\ (TurnOver /\ Success(r, report) /\ exc = "None") =>
               (pc = "awaiting" /\ Len(messages) = Len(before) + 2)
        /\ (TurnOver /\ FatalFailure) => Terminated

C13_Witness ==
    /\ C13_Unpriced /\ pc = "exited" /\ pricing_errors = 1
    /\ requests = 2 /\ Len(accepted) = 2 /\ prompt_tokens = 2 /\ exc = "EOFError"

\* C14 as stated: when the configuration file does not exist at startup the
\* program exits with a non-zero status before the loop starts, with no turn
\* and no request; a quit token or the end of input exits with status 0.
C14_NormalExit ==
    (pc = "awaiting" /\ exc' = "EOFError" /\ turns' = turns + 1) =>
        (pc' = "exiting" /\ exit_code' = 0 /\ requests' = requests)

C14_MissingConfigExits ==
    [][/\ (pc = "start" /\ config_file # "present") =>
              (pc' = "exiting" /\ exit_code' # 0 /\ turns' = 0 /\ requests' = 0)
       /\ C14_NormalExit]_vars

\* C14, amended: a configuration file that does not exist is written with the
\* default content and the loop starts with that configuration; only when the
\* file can neither be found nor created does the program exit with status 1
\* before the loop starts, with no turn and no request, then and afterwards; a
\* quit token or the end of input exits with status 0, and the status is
\* not changed after that.
C14_MissingConfigCreated ==
    [][/\ (pc = "start" /\ config_file = "absent") =>
              /\ pc' = "awaiting" /\ config_file' = "present" /\ exit_code' = exit_code
              /\ config' = Overrides(DefaultConfig, environ, api_key, model)
       /\ (pc = "start" /\ config_file = "uncreatable") =>
              (pc' = "exiting" /\ exit_code' = 1 /\ turns' = 0 /\ requests' = 0)
       /\ C14_NormalExit
       /\ pc = "exiting" =>
              (pc' = "exited" /\ exit_code' = exit_code /\ turns' = turns
               /\ requests' = requests)]_vars

C14_Witness ==
    /\ pc = "exited" /\ exit_code = 0 /\ config.api_key = DefaultConfig.api_key
    /\ message \in QuitTokens /\ turns = 2 /\ requests = 1 /\ Len(accepted) = 2

\* C15: the expense display_expense prints is the sum of prompt_tokens / 1000
\* times the prompt rate and completion_tokens / 1000 times the completion rate
\* rounded to six decimals, that is a millionth nearest to the sum (either
\* neighbour when the sum lies exactly between two); for 1000 prompt tokens,
\* 500 completion tokens and the rates 0.0015 and 0.002 it is 0.002500.
C15_ExpenseRounded ==
    (pc = "exited" /\ atexit # <<>> /\ config.model \in DOMAIN PRICING_RATE) =>
        LET rate == PRICING_RATE[config.model]
            sum == prompt_tokens * rate.prompt + completion_tokens * rate.completion
        IN  /\ summary.expense * 1000 - sum \in -500..500
            /\ summary.expense >= 0
            /\ (/\ prompt_tokens = 1000 /\ completion_tokens = 500
                /\ rate.prompt = 1500 /\ rate.completion = 2000) =>
                   summary.expense = 2500

C15_Witness ==
    /\ pc = "exited" /\ prompt_tokens = 1000 /\ completion_tokens = 500
    /\ config.model = KnownModel /\ summary.expense = 2500 /\ summary.total = 1500

\* C16: the credential of every request's Authorization header is the --key
\* value (stripped) when one is given, otherwise the value of the environment
\* variable (stripped) when it is set and not empty, otherwise the api-key of
\* the configuration file, whichever of the three sources are there.
C16_Credential(file_key) ==
    IF api_key # "" THEN Strip(api_key)
    ELSE IF environ # "" THEN Strip(environ) ELSE file_key

C16_CredentialPrecedence ==
    [][/\ (pc = "start" /\ pc' = "awaiting") =>
              config'.api_key =
                  C16_Credential(load_config(config_file, file_markdown).api_key)
       /\ pc # "start" =>
              (config' = config /\ api_key' = api_key /\ environ' = environ)
       /\ requests' # requests => headers' = config.api_key
       /\ requests' = requests => headers' = headers]_vars

C16_Witness ==
    /\ pc = "dispatching" /\ requests = 2 /\ api_key # "" /\ environ # ""
    /\ headers = "k_cli" /\ Len(accepted) = 2

\* C17: the message list gets shorter only by messages.pop() in a turn that
\* has appended its user message and nothing after it: the list is not empty,
\* exactly that user message is removed, the list is again what it was when
\* the turn started (so no system or assistant message is removed), and the
\* turn ends with that step (so it pops at most once).
C17_PopsOnlySpeculativeMessage ==
    [][Len(messages') < Len(messages) =>
           /\ pc = "dispatching" /\ pc' # "dispatching"
           /\ messages # <<>>
           /\ messages = Append(before, Msg("user", message))
           /\ messages' = before
           /\ accepted' = accepted
           /\ \A i \in 1..Len(messages') : messages'[i] = messages[i]]_vars

C17_Witness ==
    /\ pc = "awaiting" /\ r.kind = "Timeout" /\ exc = "KeyboardInterrupt"
    /\ Len(accepted) = 2 /\ Len(SystemMessages) = 2 /\ Len(messages) = 4
    /\ messages = before /\ requests = 2

\* C18: whenever the loop continues on a KeyboardInterrupt (empty line,
\* recoverable failure, Ctrl-C at the prompt or during the network call) the
\* message list is what it was when the turn started; so whenever the user is
\* prompted the messages after the startup system messages are complete pairs
\* of a user message and an assistant message.
C18_Pairs(msgs) ==
    /\ Len(msgs) % 2 = 0
    /\ \A i \in 1..Len(msgs) :
           msgs[i].role = (IF i % 2 = 1 THEN "user" ELSE "assistant")

C18_InterruptLeavesListAsBefore ==
    /\ (pc = "awaiting" /\ exc = "KeyboardInterrupt") => messages = before
    /\ (pc = "awaiting" /\ atexit # <<>>) =>
           /\ Len(messages) >= Len(SystemMessages)
           /\ SubSeq(messages, 1, Len(SystemMessages)) = SystemMessages
           /\ C18_Pairs(SubSeq(messages, Len(SystemMessages) + 1, Len(messages)))

\* C19: for every status and every body of a response, start_prompt returns or
\* raises KeyboardInterrupt (the loop prompts again) or raises EOFError (the
\* loop ends); no other exception leaves the loop.
C19_OnlyHandledSignals ==
    (TurnOver /\ r.kind = "response") =>
        /\ exc \in {"None", "KeyboardInterrupt", "EOFError"}
        /\ exc \in {"None", "KeyboardInterrupt"} => pc = "awaiting"
        /\ exc = "EOFError" => Terminated

====
